---------------------------- MODULE Spec2Model ----------------------------
(***************************************************************************)
(* Model of the crawl pipeline of the SEO platform backend:                *)
(*   services/crawler.py   WebCrawler.crawl_site, _crawl_directed,         *)
(*                         _crawl_full_site, _crawl_page,                  *)
(*                         _extract_page_data (links), _extract_internal_  *)
(*                         links, _save_page_data                          *)
(*   api/routes/crawls.py  create_crawl, cancel_crawl, start_crawl_task    *)
(* One crawl row, its background task and the cancel endpoint are          *)
(* modelled; every await in the code is a point where the other coroutine  *)
(* may run.                                                                *)
(***************************************************************************)
EXTENDS Integers, Sequences, FiniteSets, TLC

(***************************************************************************)
(* Bounds of the model                                                     *)
(***************************************************************************)
MaxPages == 4       \* config max_pages ranges over 0..MaxPages
MaxDepth == 2       \* config max_depth ranges over 0..MaxDepth
MaxLinks == 2       \* anchors on one fetched page
MaxUrls == 2        \* length of the explicit URL list of a directed crawl
MaxCancels == 2     \* cancel requests sent to the endpoint
MaxCalls == 4       \* start()/stop() calls made on one WebCrawler
MaxNear == 60       \* text lengths lie within MaxNear of 0 and of max_chars
MaxText == 5        \* characters of a text handed to the chunker
MaxChunk == 3       \* chunk_size ranges over 1..MaxChunk, overlap over 0..MaxChunk
MaxWindows == 6     \* turns of the chunking loop that are followed
MaxSaves == 3       \* _save_page_data calls made by the two crawls together
MaxTags == 3        \* meta tags and JSON-LD blocks of one document

(***************************************************************************)
(* URLs.  A URL string is kept as (host, name, ext): urlparse(url).netloc  *)
(* is host, url.endswith(e) is ext = e.                                    *)
(***************************************************************************)
Domain == "site"

Url(h, n, e) == [host |-> h, name |-> n, ext |-> e]

\* crawler.py:190-192   start_url = f"https://{site.domain}"
StartUrl(domain) == Url(domain, "", "")

\* crawler.py:476   extensions that are not pages
AssetExts == {".pdf", ".jpg", ".png", ".gif", ".css", ".js"}

\* anchors a fetched page may carry (href as written in the document)
Hrefs ==
  { [kind |-> "abs", host |-> Domain,  name |-> "",    ext |-> ""],
    [kind |-> "abs", host |-> Domain,  name |-> "p1",  ext |-> ""],
    [kind |-> "rel", host |-> "",      name |-> "p2",  ext |-> ""],
    [kind |-> "rel", host |-> "",      name |-> "doc", ext |-> ".pdf"],
    [kind |-> "abs", host |-> "other", name |-> "x",   ext |-> ""] }

\* URLs a caller may put in the explicit list of a directed crawl
ListUrls == { Url(Domain, "p1", ""), Url(Domain, "p2", ""), Url("other", "x", "") }

SeqsUpTo(S, n) == UNION { [1..k -> S] : k \in 0..n }

\* the documents the site may serve: a sequence of anchors
Documents == SeqsUpTo(Hrefs, MaxLinks)

\* what the browser and the site do to one _crawl_page call
Outcomes == { "ok", "status_ge_400", "no_response", "nav_exception",
              "extract_exception", "new_page_exception", "close_exception" }

PENDING == "pending"
RUNNING == "running"
COMPLETED == "completed"
FAILED == "failed"
CANCELLED == "cancelled"
CrawlStatus == {PENDING, RUNNING, COMPLETED, FAILED, CANCELLED}
Terminal == {COMPLETED, FAILED, CANCELLED}

NoSession == "None"
NoUrl == Url("", "", "")
NoCur == [url |-> NoUrl, depth |-> 0]

VARIABLES
  crawl,       \* the Crawl row in the database
  urls,        \* crawl_data.urls handed to the background task
  explicit,    \* crawl_data.urls was a list (TRUE) or None (FALSE)
  config,      \* CrawlerConfig built from crawl.config
  pc,          \* position of start_crawl_task
  results,     \* the results dict of crawl_site
  visited,     \* _crawl_full_site: visited set
  to_visit,    \* _crawl_full_site: frontier list of (url, depth)
  idx,         \* _crawl_directed: position in urls
  cur,         \* the (url, depth) whose _crawl_page call is in flight
  fetched,     \* every call of _crawl_page so far, in order
  outcome,     \* what happened to the last completed _crawl_page call
  skipped,     \* _crawl_full_site: frontier entries discarded at line 200-201
  saved,       \* page records written by _save_page_data, in order
  exc,         \* exception travelling to the handler of start_crawl_task
  cancelPc,    \* position of the cancel_crawl request in progress
  replies,     \* answers of the cancel requests so far, in order
  site,        \* the web site being crawled: the documents and outcomes it gives
  pause,       \* milliseconds slept at the end of the latest loop iteration
  session,     \* WebCrawler.browser / .context and the state of what they name
  sessionLog,  \* calls of start()/stop() and the operations they issued, in order
  pg,          \* one _crawl_page call followed step by step
  md,          \* one html_to_markdown call
  ck,          \* one _chunk_text / generate_embeddings call followed step by step
  db,          \* the pages and page_embeddings tables and the _save_page_data calls
  extr         \* one _extract_page_data call (meta tags, JSON-LD blocks, anchors)

vars == << crawl, urls, explicit, config, pc, results, visited, to_visit, idx, cur,
           fetched, outcome, skipped, saved, exc, cancelPc, replies,
           site, pause, session, sessionLog, pg, md, ck, db, extr >>

taskVars == << urls, explicit, config, pc, results, visited, to_visit, idx, cur,
               fetched, outcome, skipped, saved, exc,
               site, pause, session, sessionLog, pg, md, ck, db, extr >>
cancelVars == << cancelPc, replies >>
sessVars == << session, sessionLog >>
fixedVars == << site, pg, md, ck, db, extr, explicit >>


(***************************************************************************)
(* Pure parts of the crawler                                               *)
(***************************************************************************)

\* urljoin(base, href) for an href that does not start with http:// or
\* https://: a path ("rel") is resolved on the host of the base, a
\* protocol-relative href ("protorel", //host/name) keeps its own host, an
\* href with another scheme ("mailto") is returned as it is and has no host
UrlJoin(base, href) ==
  CASE href.kind = "rel"      -> Url(base.host, href.name, href.ext)
    [] href.kind = "protorel" -> Url(href.host, href.name, href.ext)
    [] href.kind = "mailto"   -> Url("", href.name, href.ext)

\* crawler.py:393-412  _extract_page_data, the links of the page at `url`
ExtractLinks(url, doc) ==
  [ i \in 1..Len(doc) |->
      IF doc[i].kind = "abs"
      THEN [ url |-> Url(doc[i].host, doc[i].name, doc[i].ext),
             is_internal |-> (doc[i].host = url.host) ]
      ELSE [ url |-> UrlJoin(url, doc[i]),
             is_internal |-> TRUE ] ]

\* crawler.py:471-477  the links kept by _extract_internal_links
IsPageLink(l) == l.is_internal /\ l.url # NoUrl /\ l.url.ext \notin AssetExts

InternalUrls(links) == { links[i].url : i \in { j \in 1..Len(links) : IsPageLink(links[j]) } }

\* crawler.py:468-479  _extract_internal_links returns list(set(...)): the
\* kept URLs without duplicates, in the iteration order of a Python set of
\* strings, which is any order.  The operator is the set of possible returns.
ExtractInternalLinks(links, domain) ==
  LET S == InternalUrls(links)
      n == Cardinality(S)
  IN { s \in [1..n -> S] : \A i, j \in 1..n : i # j => s[i] # s[j] }

\* variant of LoopGuard: the page bound tested with <= instead of <
LoopGuard_Inclusive(tv, vis, max_pages) == tv # << >> /\ Cardinality(vis) <= max_pages

\* crawler.py:197  while to_visit and len(visited) < self.config.max_pages
LoopGuard(tv, vis, max_pages) == tv # << >> /\ Cardinality(vis) < max_pages

\* variant of ShouldSkip: the visited test is dropped
ShouldSkip_IgnoresVisited(url, depth, vis, max_depth) == depth > max_depth

\* crawler.py:200  if url in visited or depth > self.config.max_depth
ShouldSkip(url, depth, vis, max_depth) == url \in vis \/ depth > max_depth

\* variant of ShouldExpand: expansion stops one level early
ShouldExpand_OffByOne(depth, max_depth) == depth + 1 < max_depth

\* variant of ShouldExpand: pages at max_depth are expanded too
ShouldExpand_Inclusive(depth, max_depth) == depth <= max_depth

\* crawler.py:212  if depth < self.config.max_depth
ShouldExpand(depth, max_depth) == depth < max_depth

\* variant of Enqueue: new links are put in front of the frontier
Enqueue_Front(tv, links, vis, depth) ==
  [ i \in 1..Len(SelectSeq(links, LAMBDA u : u \notin vis)) |->
      [ url |-> SelectSeq(links, LAMBDA u : u \notin vis)[i],
        depth |-> depth + 1 ] ] \o tv

\* crawler.py:217-219  append every link not yet visited at depth + 1
Enqueue(tv, links, vis, depth) ==
  tv \o [ i \in 1..Len(SelectSeq(links, LAMBDA u : u \notin vis)) |->
            [ url |-> SelectSeq(links, LAMBDA u : u \notin vis)[i],
              depth |-> depth + 1 ] ]

\* crawler.py:236-270  _crawl_page: what the caller gets for each outcome
CrawlPage(o) ==
  CASE o = "ok"                 -> "page_data"
    [] o = "status_ge_400"      -> "None"     \* line 253-255
    [] o = "no_response"        -> "None"     \* line 253-255
    [] o = "nav_exception"      -> "None"     \* line 265-267
    [] o = "extract_exception"  -> "None"     \* line 265-267
    [] o = "new_page_exception" -> "raise"    \* line 244, outside the try
    [] o = "close_exception"    -> "raise"    \* line 270, in the finally

\* crawler.py:481-486  _save_page_data: without a session nothing is written
SavePageData(db_session, rows, url) ==
  IF db_session = NoSession THEN rows ELSE Append(rows, url)

\* variant of RecordPage: an exception is logged but not counted
RecordPage_RaiseNotCounted(res, url, r, o) ==
  CASE r = "page_data" -> [res EXCEPT !.pages_crawled = @ + 1]
    [] r = "None"      -> [res EXCEPT !.pages_failed = @ + 1]
    [] r = "raise"     -> [res EXCEPT !.errors = Append(@, [url |-> url, error |-> o])]

\* crawler.py:164-169, 177-180 (206-209, 220-221, 229-232)  the counters and
\* the error list after one _crawl_page call returned r
RecordPage(res, url, r, o) ==
  CASE r = "page_data" -> [res EXCEPT !.pages_crawled = @ + 1]
    [] r = "None"      -> [res EXCEPT !.pages_failed = @ + 1]
    [] r = "raise"     -> [res EXCEPT !.pages_failed = @ + 1,
                                      !.errors = Append(@, [url |-> url, error |-> o])]

\* variant of IsDirected: a one-element list is taken for no list
IsDirected_MoreThanOne(u) == Len(u) > 1

\* crawler.py:138  if urls:
IsDirected(u) == u # << >>

\* variant of FinalStatus: any failed page fails the crawl
FinalStatus_AnyFailure(res) ==
  IF res.pages_failed > 0 THEN FAILED ELSE COMPLETED

\* crawls.py:206-210
FinalStatus(res) ==
  IF res.pages_failed > 0 /\ res.pages_crawled = 0 THEN FAILED ELSE COMPLETED

\* crawls.py:208  "; ".join(results['errors'][:5])
ErrorMessage(res) ==
  [ set |-> TRUE,
    parts |-> SubSeq(res.errors, 1, IF Len(res.errors) < 5 THEN Len(res.errors) ELSE 5) ]

NoMessage == [ set |-> FALSE, parts |-> << >> ]

\* crawler.py:130-135
NewResults == [ total_pages |-> 0, pages_crawled |-> 0, pages_failed |-> 0, errors |-> << >> ]

\* crawls.py:192-193  default delay_min = 1.0 s and delay_max = 3.0 s, in ms
DelayMin == 1000
DelayMax == 3000

\* crawler.py:172-175  delay_min + (delay_max - delay_min) * 0.5
PolitenessDelay(dmin, dmax) == dmin + ((dmax - dmin) * 5) \div 10

\* crawler.py:164-180 (206-232)  the sleep stands inside the try, after the
\* if/else: an exception out of _crawl_page jumps over it
PauseAfter(r, cfg) ==
  IF r = "raise" THEN 0 ELSE PolitenessDelay(cfg.delay_min, cfg.delay_max)

\* crawler.py:336  the site answers any document and any outcome, or (fixed)
\* one document per URL
AnySite == [ fixed |-> FALSE, doc |-> << >>, outcomes |-> Outcomes ]

Serve(s, url) == IF s.fixed THEN { s.doc[url] } ELSE Documents

(***************************************************************************)
(* The browser session of a WebCrawler.  A field is "None" (attribute not  *)
(* set), "open" or "closed" (attribute set, the object it names open or    *)
(* closed).                                                                *)
(***************************************************************************)
\* crawler.py:48-52
NewSession == [ browser |-> "None", context |-> "None" ]

StartOutcomes == { "ok", "launch_fails", "context_fails", "script_fails" }
StopOutcomes == { "ok", "context_close_fails", "browser_close_fails" }

\* crawler.py:63-103  start(): launch, new_context, add_init_script; the
\* first that fails raises and the rest is not done
Start(s, o) ==
  CASE o = "launch_fails" ->
         [ session |-> s, ops |-> << "launch" >>, raised |-> TRUE ]
    [] o = "context_fails" ->
         [ session |-> [s EXCEPT !.browser = "open"],
           ops |-> << "launch", "new_context" >>, raised |-> TRUE ]
    [] o = "script_fails" ->
         [ session |-> [browser |-> "open", context |-> "open"],
           ops |-> << "launch", "new_context", "add_init_script" >>, raised |-> TRUE ]
    [] o = "ok" ->
         [ session |-> [browser |-> "open", context |-> "open"],
           ops |-> << "launch", "new_context", "add_init_script" >>, raised |-> FALSE ]

\* crawler.py:105-110  stop(): close the context if the attribute is set,
\* then the browser if the attribute is set; a close that raises ends stop()
Stop(s, o) ==
  LET c == s.context # "None"
      cfail == c /\ o = "context_close_fails"
      b == ~ cfail /\ s.browser # "None"
      bfail == b /\ o = "browser_close_fails"
  IN [ session |-> [ context |-> IF c /\ ~ cfail THEN "closed" ELSE s.context,
                     browser |-> IF b /\ ~ bfail THEN "closed" ELSE s.browser ],
       ops |-> (IF c THEN << "context.close" >> ELSE << >>)
                 \o (IF b THEN << "browser.close" >> ELSE << >>),
       raised |-> cfail \/ bfail ]

\* variant of AfterEnter: a failed start() is swallowed and the crawl runs
AfterEnter_Swallowed(raised) == "dispatch"

\* crawls.py:198-199  an exception out of __aenter__ skips the body of the
\* async with and goes to the except clause of the task
AfterEnter(raised) == IF raised THEN "handler" ELSE "dispatch"

\* no _crawl_page call is being followed
NoPage == [ pc |-> "idle" ]

\* no ContentProcessor call, no save and no extraction is being followed
NoCall == [ pc |-> "idle" ]

(***************************************************************************)
(* Initial state: create_crawl has committed the row and queued the task   *)
(***************************************************************************)
\* crawls.py:84-96, models.py:105-118
Init ==
  /\ crawl = [ status |-> PENDING, total_pages |-> 0, pages_crawled |-> 0,
               pages_failed |-> 0, completed_at |-> FALSE, error_message |-> NoMessage ]
  /\ urls \in SeqsUpTo(ListUrls, MaxUrls)
  /\ explicit = (urls # << >>)
  /\ config \in [ max_pages : 0..MaxPages, max_depth : 0..MaxDepth,
                   delay_min : {DelayMin}, delay_max : {DelayMax} ]
  /\ pc = "queued"
  /\ results = NewResults
  /\ visited = {}
  /\ to_visit = << >>
  /\ idx = 0
  /\ cur = NoCur
  /\ fetched = << >>
  /\ outcome = "none"
  /\ skipped = {}
  /\ saved = << >>
  /\ exc = "none"
  /\ cancelPc = "idle"
  /\ replies = << >>
  /\ site = AnySite
  /\ pause = 0
  /\ session = NewSession
  /\ sessionLog = << >>
  /\ pg = NoPage
  /\ md = NoCall
  /\ ck = NoCall
  /\ db = NoCall
  /\ extr = NoCall

(***************************************************************************)
(* start_crawl_task                                                        *)
(***************************************************************************)
\* crawls.py:171-195  load the row, set RUNNING, commit
TaskStart ==
  /\ pc = "queued"
  /\ crawl' = [crawl EXCEPT !.status = RUNNING]
  /\ pc' = "starting"
  /\ UNCHANGED << urls, config, results, visited, to_visit, idx, cur, fetched,
                  outcome, skipped, saved, exc, cancelVars, fixedVars, pause, sessVars >>

\* crawls.py:198, crawler.py:54-103  __aenter__ -> start(); a launch that
\* fails raises into the handler of the task
SessionStart ==
  /\ pc = "starting"
  /\ \E o \in StartOutcomes :
       LET st == Start(session, o) IN
         /\ session' = st.session
         /\ sessionLog' = sessionLog \o << "start" >> \o st.ops
         /\ pc' = AfterEnter(st.raised)
         /\ exc' = IF st.raised THEN "start" ELSE exc
  /\ UNCHANGED << crawl, urls, config, results, visited, to_visit, idx, cur,
                  fetched, outcome, skipped, saved, cancelVars, fixedVars, pause >>

\* crawler.py:130-143, 160, 190-195  crawl_site picks the mode
CrawlSite ==
  /\ pc = "dispatch"
  /\ IF IsDirected(urls)
     THEN /\ results' = [NewResults EXCEPT !.total_pages = Len(urls)]
          /\ idx' = 1
          /\ pc' = "directed"
          /\ UNCHANGED << visited, to_visit >>
     ELSE /\ results' = NewResults
          /\ visited' = {}
          /\ to_visit' = << [url |-> StartUrl(Domain), depth |-> 0] >>
          /\ pc' = "full"
          /\ idx' = idx
  /\ UNCHANGED << crawl, urls, config, cur, fetched, outcome, skipped, saved, exc, cancelVars, fixedVars, pause, sessVars >>

\* crawler.py:197-206  one turn of the loop up to the call of _crawl_page
FullNext ==
  /\ pc = "full"
  /\ LoopGuard(to_visit, visited, config.max_pages)
  /\ LET head == Head(to_visit) IN
       /\ to_visit' = Tail(to_visit)
       /\ IF ShouldSkip(head.url, head.depth, visited, config.max_depth)
          THEN /\ skipped' = skipped \cup {head}
               /\ UNCHANGED << visited, cur, fetched, pc >>
          ELSE /\ skipped' = skipped
               /\ visited' = visited \cup {head.url}
               /\ cur' = head
               /\ fetched' = Append(fetched, head)
               /\ pc' = "full_page"
  /\ UNCHANGED << crawl, urls, config, results, idx, outcome, saved, exc, cancelVars, fixedVars, pause, sessVars >>

\* crawler.py:206-232  _crawl_page returns or raises; save, count, expand, sleep
FullPage ==
  /\ pc = "full_page"
  /\ \E o \in site.outcomes, doc \in Serve(site, cur.url) :
       LET r == CrawlPage(o) IN
         /\ outcome' = o
         /\ pause' = PauseAfter(r, config)
         /\ results' = RecordPage(results, cur.url, r, o)
         /\ saved' = IF r = "page_data" THEN SavePageData(NoSession, saved, cur.url) ELSE saved
         /\ IF r = "page_data" /\ ShouldExpand(cur.depth, config.max_depth)
            THEN \E links \in ExtractInternalLinks(ExtractLinks(cur.url, doc), Domain) :
                   to_visit' = Enqueue(to_visit, links, visited, cur.depth)
            ELSE to_visit' = to_visit
  /\ cur' = NoCur
  /\ pc' = "full"
  /\ UNCHANGED << crawl, urls, config, visited, idx, fetched, skipped, exc, cancelVars, fixedVars, sessVars >>

\* crawler.py:197, 234  the loop ends
FullExit ==
  /\ pc = "full"
  /\ ~ LoopGuard(to_visit, visited, config.max_pages)
  /\ results' = [results EXCEPT !.total_pages = Cardinality(visited)]
  /\ pc' = "returned"
  /\ UNCHANGED << crawl, urls, config, visited, to_visit, idx, cur, fetched,
                  outcome, skipped, saved, exc, cancelVars, fixedVars, pause, sessVars >>

\* crawler.py:162-164  next URL of the list, up to the call of _crawl_page
DirectedNext ==
  /\ pc = "directed"
  /\ idx <= Len(urls)
  /\ cur' = [url |-> urls[idx], depth |-> 0]
  /\ fetched' = Append(fetched, [url |-> urls[idx], depth |-> 0])
  /\ pc' = "directed_page"
  /\ UNCHANGED << crawl, urls, config, results, visited, to_visit, idx, outcome,
                  skipped, saved, exc, cancelVars, fixedVars, pause, sessVars >>

\* crawler.py:164-180
DirectedPage ==
  /\ pc = "directed_page"
  /\ \E o \in site.outcomes :
       LET r == CrawlPage(o) IN
         /\ outcome' = o
         /\ pause' = PauseAfter(r, config)
         /\ results' = RecordPage(results, cur.url, r, o)
         /\ saved' = IF r = "page_data" THEN SavePageData(NoSession, saved, cur.url) ELSE saved
  /\ idx' = idx + 1
  /\ cur' = NoCur
  /\ pc' = "directed"
  /\ UNCHANGED << crawl, urls, config, visited, to_visit, fetched, skipped, exc, cancelVars, fixedVars, sessVars >>

\* crawler.py:162, 149  the list is exhausted, crawl_site returns
DirectedExit ==
  /\ pc = "directed"
  /\ idx > Len(urls)
  /\ pc' = "returned"
  /\ UNCHANGED << crawl, urls, config, results, visited, to_visit, idx, cur,
                  fetched, outcome, skipped, saved, exc, cancelVars, fixedVars, pause, sessVars >>

\* crawls.py:201-213  copy the counters, derive the status, commit
TaskFinish ==
  /\ pc = "returned"
  /\ crawl' = [crawl EXCEPT
       !.total_pages = results.total_pages,
       !.pages_crawled = results.pages_crawled,
       !.pages_failed = results.pages_failed,
       !.status = FinalStatus(results),
       !.error_message = IF FinalStatus(results) = FAILED THEN ErrorMessage(results) ELSE @,
       !.completed_at = TRUE]
  /\ pc' = "stopping"
  /\ UNCHANGED << urls, config, results, visited, to_visit, idx, cur, fetched,
                  outcome, skipped, saved, exc, cancelVars, fixedVars, pause, sessVars >>

\* crawls.py:198, crawler.py:59-61, 105-110  __aexit__ -> stop(); a close
\* that fails raises into the handler of the task
SessionStop ==
  /\ pc = "stopping"
  /\ \E o \in StopOutcomes :
       LET st == Stop(session, o) IN
         /\ session' = st.session
         /\ sessionLog' = sessionLog \o << "stop" >> \o st.ops
         /\ pc' = IF st.raised THEN "handler" ELSE "done"
         /\ exc' = IF st.raised THEN "stop" ELSE exc
  /\ UNCHANGED << crawl, urls, config, results, visited, to_visit, idx, cur,
                  fetched, outcome, skipped, saved, cancelVars, fixedVars, pause >>

\* variant of TaskHandler: the handler only reports the exception
TaskHandler_ReportOnly ==
  /\ pc = "handler"
  /\ pc' = "done"
  /\ UNCHANGED << crawl, urls, config, results, visited, to_visit, idx, cur, fetched,
                  outcome, skipped, saved, exc, cancelVars, fixedVars, pause, sessVars >>

\* crawls.py:217-230  except Exception: mark the crawl failed
TaskHandler ==
  /\ pc = "handler"
  /\ crawl' = [crawl EXCEPT
       !.status = FAILED,
       !.error_message = [set |-> TRUE, parts |-> << [url |-> NoUrl, error |-> exc] >>],
       !.completed_at = TRUE]
  /\ pc' = "done"
  /\ UNCHANGED << urls, config, results, visited, to_visit, idx, cur, fetched,
                  outcome, skipped, saved, exc, cancelVars, fixedVars, pause, sessVars >>

(***************************************************************************)
(* cancel_crawl                                                            *)
(***************************************************************************)
\* crawls.py:150  the statuses a cancel request accepts
Cancellable(st) == st \in {PENDING, RUNNING}

\* crawls.py:134-154  read the row, reject a crawl that is neither pending
\* nor running
CancelRead ==
  /\ cancelPc = "idle"
  /\ Len(replies) < MaxCancels
  /\ IF Cancellable(crawl.status)
     THEN /\ cancelPc' = "checked"
          /\ replies' = replies
     ELSE /\ replies' = Append(replies, "rejected")
          /\ cancelPc' = cancelPc
  /\ UNCHANGED << crawl, taskVars >>

\* crawls.py:156-161  set CANCELLED, commit
CancelCommit ==
  /\ cancelPc = "checked"
  /\ crawl' = [crawl EXCEPT !.status = CANCELLED, !.completed_at = TRUE]
  /\ cancelPc' = "idle"
  /\ replies' = Append(replies, "cancelled")
  /\ UNCHANGED taskVars

Next ==
  \/ TaskStart
  \/ SessionStart
  \/ CrawlSite
  \/ FullNext
  \/ FullPage
  \/ FullExit
  \/ DirectedNext
  \/ DirectedPage
  \/ DirectedExit
  \/ TaskFinish
  \/ SessionStop
  \/ TaskHandler
  \/ CancelRead
  \/ CancelCommit

Spec == Init /\ [][Next]_vars

(***************************************************************************)
(* A full-site crawl of the site of the specification's scenarios A and B: *)
(* the root links to p1, p2, p3, which link to nothing new.                *)
(***************************************************************************)
PageUrl(n) == Url(Domain, n, "")

LinkTo(n) == [kind |-> "abs", host |-> Domain, name |-> n, ext |-> ""]

ScenarioPages == { StartUrl(Domain), PageUrl("p1"), PageUrl("p2"), PageUrl("p3") }

ScenarioDoc ==
  [ u \in ScenarioPages |->
      CASE u = StartUrl(Domain) -> << LinkTo("p1"), LinkTo("p2"), LinkTo("p3") >>
        [] u = PageUrl("p1")    -> << LinkTo("") >>
        [] u = PageUrl("p2")    -> << >>
        [] u = PageUrl("p3")    -> << LinkTo("p1") >> ]

\* the site with every fetch succeeding, and with fetches that may fail
ScenarioSites ==
  { [ fixed |-> TRUE, doc |-> ScenarioDoc, outcomes |-> os ] : os \in { {"ok"}, Outcomes } }

\* crawls.py:84-96  a full-site crawl (no URL list) of the scenario site
ScenarioInit ==
  /\ crawl = [ status |-> PENDING, total_pages |-> 0, pages_crawled |-> 0,
               pages_failed |-> 0, completed_at |-> FALSE, error_message |-> NoMessage ]
  /\ urls = << >>
  /\ explicit = FALSE
  /\ config \in [ max_pages : {1, 10}, max_depth : {0, 1},
                   delay_min : {DelayMin}, delay_max : {DelayMax} ]
  /\ pc = "queued"
  /\ results = NewResults
  /\ visited = {}
  /\ to_visit = << >>
  /\ idx = 0
  /\ cur = NoCur
  /\ fetched = << >>
  /\ outcome = "none"
  /\ skipped = {}
  /\ saved = << >>
  /\ exc = "none"
  /\ cancelPc = "idle"
  /\ replies = << >>
  /\ site \in ScenarioSites
  /\ pause = 0
  /\ session = NewSession
  /\ sessionLog = << >>
  /\ pg = NoPage
  /\ md = NoCall
  /\ ck = NoCall
  /\ db = NoCall
  /\ extr = NoCall

ScenarioNext ==
  \/ TaskStart
  \/ SessionStart
  \/ CrawlSite
  \/ FullNext
  \/ FullPage
  \/ FullExit
  \/ TaskFinish
  \/ SessionStop
  \/ TaskHandler
  \/ CancelRead
  \/ CancelCommit

SpecScenario == ScenarioInit /\ [][ScenarioNext]_vars

(***************************************************************************)
(* One _crawl_page call, with _navigate_with_retries, followed step by     *)
(* step.  pg.log holds the page.goto calls and the backoff sleeps of the   *)
(* call in order.                                                          *)
(***************************************************************************)
coreVars == << crawl, urls, explicit, config, pc, results, visited, to_visit, idx, cur,
               fetched, outcome, skipped, saved, exc, cancelPc, replies, site, pause >>
crawlVars == << coreVars, md, ck, db, extr >>

\* no crawl is running: the variables of the crawl task at rest
CrawlIdle ==
  /\ crawl = [ status |-> PENDING, total_pages |-> 0, pages_crawled |-> 0,
               pages_failed |-> 0, completed_at |-> FALSE, error_message |-> NoMessage ]
  /\ urls = << >>
  /\ explicit = FALSE
  /\ config = [ max_pages |-> 1000, max_depth |-> 3,
                delay_min |-> DelayMin, delay_max |-> DelayMax ]
  /\ pc = "queued"
  /\ results = NewResults
  /\ visited = {}
  /\ to_visit = << >>
  /\ idx = 0
  /\ cur = NoCur
  /\ fetched = << >>
  /\ outcome = "none"
  /\ skipped = {}
  /\ saved = << >>
  /\ exc = "none"
  /\ cancelPc = "idle"
  /\ replies = << >>
  /\ site = AnySite
  /\ pause = 0

\* no crawl, no browser session and no page load is in progress
PipelineIdle ==
  /\ CrawlIdle
  /\ session = NewSession
  /\ sessionLog = << >>
  /\ pg = NoPage

\* crawler.py:280  max_retries: int = 3
MaxRetries == 3

\* what page.goto may return: no response, or a response with a status
NoResponse == [ none |-> TRUE, status |-> 0 ]
Responses == { NoResponse } \cup { [ none |-> FALSE, status |-> n ] : n \in {200, 404, 500} }

Goto(wait) == [ op |-> "goto", wait |-> wait, secs |-> 0 ]
Sleep(secs) == [ op |-> "sleep", wait |-> "", secs |-> secs ]

\* variant of Backoff: the delays shrink from one attempt to the next
Backoff_Decreasing(attempt) == 2 ^ (1 - attempt)

\* crawler.py:306  asyncio.sleep(2 ** attempt)
Backoff(attempt) == 2 ^ attempt

\* crawler.py:253  if not response or response.status >= 400
LoadFailed(response) == response.none \/ response.status >= 400

\* crawler.py:236, 280  _crawl_page(url) is called
PageInit ==
  /\ CrawlIdle
  /\ session = [ browser |-> "open", context |-> "open" ]
  /\ sessionLog = << "start", "launch", "new_context", "add_init_script" >>
  /\ pg \in [ pc : {"new_page"}, url : ListUrls \cup {StartUrl(Domain)},
              attempt : {0}, max_retries : {MaxRetries}, log : { << >> },
              response : {NoResponse}, nav : {"pending"}, open : {FALSE},
              result : {"pending"} ]
  /\ md = NoCall
  /\ ck = NoCall
  /\ db = NoCall
  /\ extr = NoCall

\* crawler.py:244-248  new_page (outside the try), then page.route
PageNew ==
  /\ pg.pc = "new_page"
  /\ \/ pg' = [pg EXCEPT !.pc = "goto", !.open = TRUE]
     \/ pg' = [pg EXCEPT !.pc = "raised", !.result = "raise"]
     \/ pg' = [pg EXCEPT !.pc = "close", !.open = TRUE, !.result = "None"]
  /\ UNCHANGED << crawlVars, sessVars >>

\* crawler.py:283-296, 307-308  page.goto(wait_until='networkidle'); when it
\* raises: the last attempt re-raises (caught at _crawl_page line 265), the
\* second attempt goes to the fallback, the first to the sleep
NavGoto ==
  /\ pg.pc = "goto"
  /\ \/ \E r \in Responses :
          pg' = [pg EXCEPT !.log = Append(@, Goto("networkidle")),
                           !.response = r, !.nav = "returned", !.pc = "check"]
     \/ pg' = [pg EXCEPT !.log = Append(@, Goto("networkidle")),
                         !.nav = IF pg.attempt < pg.max_retries - 1 THEN @ ELSE "raised",
                         !.result = IF pg.attempt < pg.max_retries - 1 THEN @ ELSE "None",
                         !.pc = IF pg.attempt < pg.max_retries - 1
                                THEN (IF pg.attempt = 1 THEN "fallback" ELSE "sleep")
                                ELSE "close"]
  /\ UNCHANGED << crawlVars, sessVars >>

\* crawler.py:297-303  second attempt: page.goto(wait_until='load'); when it
\* raises too the except: pass goes on to the sleep
NavFallback ==
  /\ pg.pc = "fallback"
  /\ \/ \E r \in Responses :
          pg' = [pg EXCEPT !.log = Append(@, Goto("load")),
                           !.response = r, !.nav = "returned", !.pc = "check"]
     \/ pg' = [pg EXCEPT !.log = Append(@, Goto("load")), !.pc = "sleep"]
  /\ UNCHANGED << crawlVars, sessVars >>

\* crawler.py:305-306, 283, 310  the backoff sleep, then the next attempt
NavSleep ==
  /\ pg.pc = "sleep"
  /\ pg' = [pg EXCEPT !.log = Append(@, Sleep(Backoff(pg.attempt))),
                      !.attempt = @ + 1,
                      !.nav = IF pg.attempt + 1 < pg.max_retries THEN @ ELSE "returned",
                      !.pc = IF pg.attempt + 1 < pg.max_retries THEN "goto" ELSE "check"]
  /\ UNCHANGED << crawlVars, sessVars >>

\* crawler.py:253-255
PageCheck ==
  /\ pg.pc = "check"
  /\ pg' = IF LoadFailed(pg.response)
           THEN [pg EXCEPT !.result = "None", !.pc = "close"]
           ELSE [pg EXCEPT !.pc = "extract"]
  /\ UNCHANGED << crawlVars, sessVars >>

\* crawler.py:257-267  wait for the page to settle and extract; an exception
\* is caught and gives None
PageExtract ==
  /\ pg.pc = "extract"
  /\ \/ pg' = [pg EXCEPT !.result = "page_data", !.pc = "close"]
     \/ pg' = [pg EXCEPT !.result = "None", !.pc = "close"]
  /\ UNCHANGED << crawlVars, sessVars >>

\* variant of PageClose: the page is closed on the successful path only
PageClose_SuccessOnly ==
  /\ pg.pc = "close"
  /\ pg' = [pg EXCEPT !.open = (pg.result # "page_data"), !.pc = "returned"]
  /\ UNCHANGED << crawlVars, sessVars >>

\* crawler.py:269-270  finally: page.close(); when it raises the exception
\* replaces the return value
PageClose ==
  /\ pg.pc = "close"
  /\ \/ pg' = [pg EXCEPT !.open = FALSE, !.pc = "returned"]
     \/ pg' = [pg EXCEPT !.result = "raise", !.pc = "raised"]
  /\ UNCHANGED << crawlVars, sessVars >>

PageNext ==
  \/ PageNew
  \/ NavGoto
  \/ NavFallback
  \/ NavSleep
  \/ PageCheck
  \/ PageExtract
  \/ PageClose

SpecPage == PageInit /\ [][PageNext]_vars

(***************************************************************************)
(* One WebCrawler object whose start() and stop() are called in any order  *)
(***************************************************************************)
Calls(log) == Len(SelectSeq(log, LAMBDA e : e \in {"start", "stop"}))

\* crawler.py:48-52  WebCrawler(config)
SessionInit ==
  /\ CrawlIdle
  /\ session = NewSession
  /\ sessionLog = << >>
  /\ pg = NoPage
  /\ md = NoCall
  /\ ck = NoCall
  /\ db = NoCall
  /\ extr = NoCall

\* crawler.py:63-103  a call of start()
CallStart ==
  /\ Calls(sessionLog) < MaxCalls
  /\ \E o \in StartOutcomes :
       /\ session' = Start(session, o).session
       /\ sessionLog' = sessionLog \o << "start" >> \o Start(session, o).ops
  /\ UNCHANGED << crawlVars, pg >>

\* crawler.py:105-110  a call of stop()
CallStop ==
  /\ Calls(sessionLog) < MaxCalls
  /\ \E o \in StopOutcomes :
       /\ session' = Stop(session, o).session
       /\ sessionLog' = sessionLog \o << "stop" >> \o Stop(session, o).ops
  /\ UNCHANGED << crawlVars, pg >>

SessionNext ==
  \/ CallStart
  \/ CallStop

SpecSession == SessionInit /\ [][SessionNext]_vars

(***************************************************************************)
(* The background task of a full-site crawl running alone (no cancel       *)
(* request), on any site or on the scenario site.  The event loop resumes  *)
(* the task's coroutine whenever it can go on: weak fairness on its steps. *)
(***************************************************************************)
\* crawls.py:84-96  create_crawl without a URL list
FullInit ==
  /\ crawl = [ status |-> PENDING, total_pages |-> 0, pages_crawled |-> 0,
               pages_failed |-> 0, completed_at |-> FALSE, error_message |-> NoMessage ]
  /\ urls = << >>
  /\ explicit = FALSE
  /\ config \in [ max_pages : 0..MaxPages, max_depth : 0..MaxDepth,
                   delay_min : {DelayMin}, delay_max : {DelayMax} ]
  /\ pc = "queued"
  /\ results = NewResults
  /\ visited = {}
  /\ to_visit = << >>
  /\ idx = 0
  /\ cur = NoCur
  /\ fetched = << >>
  /\ outcome = "none"
  /\ skipped = {}
  /\ saved = << >>
  /\ exc = "none"
  /\ cancelPc = "idle"
  /\ replies = << >>
  /\ site \in {AnySite} \cup ScenarioSites
  /\ pause = 0
  /\ session = NewSession
  /\ sessionLog = << >>
  /\ pg = NoPage
  /\ md = NoCall
  /\ ck = NoCall
  /\ db = NoCall
  /\ extr = NoCall

FullTaskNext ==
  \/ TaskStart
  \/ SessionStart
  \/ CrawlSite
  \/ FullNext
  \/ FullPage
  \/ FullExit
  \/ TaskFinish
  \/ SessionStop
  \/ TaskHandler

SpecFull == FullInit /\ [][FullTaskNext]_vars /\ WF_vars(FullTaskNext)

(***************************************************************************)
(* ContentProcessor.html_to_markdown.  A text is kept as its length; the   *)
(* substitutions and the strip of _clean_markdown (lines 125-138) have     *)
(* been done when the length is taken.                                     *)
(***************************************************************************)
\* content_processor.py:141  max_chars = 50000
MaxChars == 50000

\* content_processor.py:143  len("...")
EllipsisLen == 3

\* lengths a cleaned markdown text may have: short ones and ones around max_chars
Lengths == (0..MaxNear) \cup ((MaxChars - MaxNear)..(MaxChars + MaxNear))

\* content_processor.py:143  len(markdown[:max_chars])
SliceLen(n, k) == IF n < k THEN n ELSE k

\* content_processor.py:141-145  the length of what _clean_markdown returns
CleanMarkdown(n) ==
  IF n > MaxChars THEN SliceLen(n, MaxChars) + EllipsisLen ELSE n

\* content_processor.py:30  html_to_markdown(html_content) is called
MarkdownInit ==
  /\ PipelineIdle
  /\ ck = NoCall
  /\ db = NoCall
  /\ extr = NoCall
  /\ md \in [ pc : {"called"}, html_empty : BOOLEAN, markdown : Lengths, out : {0} ]

\* content_processor.py:41-64  empty input returns ""; otherwise the HTML is
\* parsed, pruned and converted
Markdownify ==
  /\ md.pc = "called"
  /\ md' = IF md.html_empty
           THEN [md EXCEPT !.pc = "returned", !.out = 0]
           ELSE [md EXCEPT !.pc = "clean"]
  /\ UNCHANGED << coreVars, sessVars, pg, ck, db, extr >>

\* content_processor.py:67-69, 121-145
CleanAndReturn ==
  /\ md.pc = "clean"
  /\ md' = [md EXCEPT !.pc = "returned", !.out = CleanMarkdown(md.markdown)]
  /\ UNCHANGED << coreVars, sessVars, pg, ck, db, extr >>

MarkdownNext ==
  \/ Markdownify
  \/ CleanAndReturn

SpecMarkdown == MarkdownInit /\ [][MarkdownNext]_vars

(***************************************************************************)
(* ContentProcessor._chunk_text and generate_embeddings.  A text is a      *)
(* sequence of characters; positions are counted from 0 as in the code.    *)
(***************************************************************************)
Chars == { "a", ".", " ", "nl" }          \* "nl" is the newline character
Whitespace == { " ", "nl" }
Texts == SeqsUpTo(Chars, MaxText)

SetMin(S) == CHOOSE x \in S : \A y \in S : x <= y
SetMax(S) == CHOOSE x \in S : \A y \in S : x >= y

\* text[a:b] for 0 <= a
Slice(t, a, b) == SubSeq(t, a + 1, IF b < Len(t) THEN b ELSE Len(t))

\* str.strip()
Strip(t) ==
  LET keep == { i \in 1..Len(t) : t[i] \notin Whitespace }
  IN IF keep = {} THEN << >> ELSE SubSeq(t, SetMin(keep), SetMax(keep))

\* text.rfind(sub, start, end): the highest position in text[start:end]
\* where sub occurs, or -1
RFind(t, sub, start, end) ==
  LET e == IF end < Len(t) THEN end ELSE Len(t)
      found == { i \in start..(e - Len(sub)) : SubSeq(t, i + 1, i + Len(sub)) = sub }
  IN IF found = {} THEN -1 ELSE SetMax(found)

\* variant of WindowEnd: a sentence cut keeps one character after the full stop
WindowEnd_PastStop(t, start, chunk_size) ==
  LET end == start + chunk_size
      half == start + chunk_size \div 2
      sentence_end == RFind(t, << "." >>, start, end)
      para_break == RFind(t, << "nl", "nl" >>, start, end)
      word_break == RFind(t, << " " >>, start, end)
  IN IF end < Len(t)
     THEN IF sentence_end > half THEN sentence_end + 2
          ELSE IF para_break > half THEN para_break + 2
          ELSE IF word_break > half THEN word_break
          ELSE end
     ELSE end

\* content_processor.py:254-271  the end of the window opened at start
WindowEnd(t, start, chunk_size) ==
  LET end == start + chunk_size
      half == start + chunk_size \div 2
      sentence_end == RFind(t, << "." >>, start, end)
      para_break == RFind(t, << "nl", "nl" >>, start, end)
      word_break == RFind(t, << " " >>, start, end)
  IN IF end < Len(t)
     THEN IF sentence_end > half THEN sentence_end + 1
          ELSE IF para_break > half THEN para_break + 2
          ELSE IF word_break > half THEN word_break
          ELSE end
     ELSE end

\* variant of NextStart: the next window opens one character after the overlap point
NextStart_Gap(end, overlap) == IF end - overlap <= 0 THEN end + 1 ELSE end - overlap + 1

\* content_processor.py:278-280  start = end - overlap; if start <= 0: start = end
NextStart(end, overlap) == IF end - overlap <= 0 THEN end ELSE end - overlap

\* content_processor.py:176  the text kept with the 'page' embedding
PageTextMax == 500
PageText(c) ==
  IF Len(c) > PageTextMax THEN SubSeq(c, 1, PageTextMax) \o << ".", ".", "." >> ELSE c

NoIndex == -1     \* chunk_index None

\* content_processor.py:184-192  one 'chunk' embedding per chunk that is not
\* blank, numbered by the position of the chunk in the list
ChunkEmbeddings(chunks) ==
  LET kept == { i \in 1..Len(chunks) : Strip(chunks[i]) # << >> }
      nth(k) == CHOOSE i \in kept : Cardinality({ j \in kept : j <= i }) = k
  IN [ k \in 1..Cardinality(kept) |->
         [ kind |-> "chunk", content_text |-> chunks[nth(k)], chunk_index |-> nth(k) - 1 ] ]

\* content_processor.py:147, 234  generate_embeddings(content, chunk_size,
\* chunk_overlap) or _chunk_text(text, chunk_size, overlap) is called
ChunkInit ==
  /\ PipelineIdle
  /\ md = NoCall
  /\ db = NoCall
  /\ extr = NoCall
  /\ ck \in [ pc : {"generate_embeddings", "_chunk_text"}, text : Texts,
              chunk_size : 1..MaxChunk, overlap : 0..MaxChunk,
              start : {0}, chunks : { << >> }, windows : { << >> },
              embeddings : { << >> } ]

\* content_processor.py:165-182  nothing for an empty content; otherwise the
\* 'page' embedding, and the chunks when the content is longer than chunk_size
GenerateEmbeddings ==
  /\ ck.pc = "generate_embeddings"
  /\ ck' = IF ck.text = << >>
           THEN [ck EXCEPT !.pc = "returned"]
           ELSE [ck EXCEPT
                   !.embeddings = << [ kind |-> "page", content_text |-> PageText(ck.text),
                                       chunk_index |-> NoIndex ] >>,
                   !.pc = IF Len(ck.text) > ck.chunk_size THEN "chunk_call" ELSE "returned"]
  /\ UNCHANGED << coreVars, sessVars, pg, md, db, extr >>

\* content_processor.py:247-251  a text that fits in one chunk is returned
\* as it is
ChunkText ==
  /\ ck.pc \in {"_chunk_text", "chunk_call"}
  /\ ck' = IF Len(ck.text) <= ck.chunk_size
           THEN [ck EXCEPT !.chunks = << ck.text >>,
                           !.pc = IF ck.pc = "chunk_call" THEN "chunked" ELSE "chunks_returned"]
           ELSE [ck EXCEPT !.start = 0,
                           !.pc = IF ck.pc = "chunk_call" THEN "loop_call" ELSE "loop"]
  /\ UNCHANGED << coreVars, sessVars, pg, md, db, extr >>

\* content_processor.py:253-280  one turn of the while loop
ChunkLoop ==
  /\ ck.pc \in {"loop", "loop_call"}
  /\ ck.start < Len(ck.text)
  /\ Len(ck.windows) < MaxWindows
  /\ LET end == WindowEnd(ck.text, ck.start, ck.chunk_size)
         chunk == Strip(Slice(ck.text, ck.start, end))
     IN ck' = [ck EXCEPT
                 !.chunks = IF chunk # << >> THEN Append(@, chunk) ELSE @,
                 !.windows = Append(@, [start |-> ck.start, end |-> end]),
                 !.start = NextStart(end, ck.overlap)]
  /\ UNCHANGED << coreVars, sessVars, pg, md, db, extr >>

\* content_processor.py:253, 282  the loop ends, the chunks are returned
ChunkReturn ==
  /\ ck.pc \in {"loop", "loop_call"}
  /\ ck.start >= Len(ck.text)
  /\ ck' = [ck EXCEPT !.pc = IF ck.pc = "loop_call" THEN "chunked" ELSE "chunks_returned"]
  /\ UNCHANGED << coreVars, sessVars, pg, md, db, extr >>

\* content_processor.py:184-197
EmbedChunks ==
  /\ ck.pc = "chunked"
  /\ ck' = [ck EXCEPT !.embeddings = @ \o ChunkEmbeddings(ck.chunks), !.pc = "returned"]
  /\ UNCHANGED << coreVars, sessVars, pg, md, db, extr >>

ChunkNext ==
  \/ GenerateEmbeddings
  \/ ChunkText
  \/ ChunkLoop
  \/ ChunkReturn
  \/ EmbedChunks

SpecChunk == ChunkInit /\ [][ChunkNext]_vars

(***************************************************************************)
(* WebCrawler._save_page_data called with a database session, by the       *)
(* tasks of two crawls of one site.  Each task has its own session; a row  *)
(* is seen by the other task once it is committed.  Every await of the     *)
(* function is a point where the other task may run.                       *)
(***************************************************************************)
Savers == { "crawl1", "crawl2" }
SiteId == "site1"
ElementKinds == { "title", "h1", "description" }

\* the page_data records handed to _save_page_data: the URL, the content_md
\* (empty, at most chunk_size characters, or longer) and the element texts
\* that are not blank
PageData ==
  [ url : { PageUrl("p1"), PageUrl("p2") },
    content : { "empty", "short", "long" },
    elements : { {}, ElementKinds } ]

\* crawler.py:560-571, content_processor.py:165-192, 216-228  the embeddings
\* of one page_data: 'page', the chunks of a long content, the elements
NewEmbeddings(d) ==
  << [ kind |-> "page", chunk_index |-> NoIndex ] >>
  \o (IF d.content = "long"
      THEN << [ kind |-> "chunk", chunk_index |-> 0 ], [ kind |-> "chunk", chunk_index |-> 1 ] >>
      ELSE << >>)
  \o (IF "title" \in d.elements THEN << [ kind |-> "title", chunk_index |-> NoIndex ] >> ELSE << >>)
  \o (IF "h1" \in d.elements THEN << [ kind |-> "h1", chunk_index |-> NoIndex ] >> ELSE << >>)
  \o (IF "description" \in d.elements
      THEN << [ kind |-> "description", chunk_index |-> NoIndex ] >> ELSE << >>)

\* crawler.py:494-499  select(Page).where(site_id == ..., url == ...)
SelectPages(pages, site_id, url) ==
  { i \in 1..Len(pages) : pages[i].site_id = site_id /\ pages[i].url = url }

\* variant of ClearEmbeddings: the rows of the page are deleted
ClearEmbeddings_Delete(rows, page_id) == SelectSeq(rows, LAMBDA e : e.page_id # page_id)

\* crawler.py:576-579  "clear existing embeddings": a select, which removes
\* no row
ClearEmbeddings(rows, page_id) == rows

\* crawler.py:582-593  one PageEmbedding row per embedding, then commit
AddEmbeddings(rows, page_id, embs) ==
  rows \o [ i \in 1..Len(embs) |->
              [ page_id |-> page_id, kind |-> embs[i].kind, chunk_index |-> embs[i].chunk_index ] ]

SaverIdle == [ pc |-> "idle", data |-> << >>, existing |-> 0, page_id |-> 0 ]

\* the tables are empty and no save is in progress
DbInit ==
  /\ PipelineIdle
  /\ md = NoCall
  /\ ck = NoCall
  /\ extr = NoCall
  /\ db = [ pc |-> "open", pages |-> << >>, embeddings |-> << >>,
            saver |-> [ k \in Savers |-> SaverIdle ],
            calls |-> 0, raised |-> 0, embedded |-> {} ]

\* crawler.py:481-492  _save_page_data(site, crawl, page_data, db_session)
SaveCall(k) ==
  /\ db.saver[k].pc = "idle"
  /\ db.calls < MaxSaves
  /\ \E d \in PageData :
       db' = [db EXCEPT !.saver[k] = [SaverIdle EXCEPT !.pc = "select", !.data = d],
                        !.calls = @ + 1]
  /\ UNCHANGED << coreVars, sessVars, pg, md, ck, extr >>

\* crawler.py:494-500, 601-604  look the page up; scalar_one_or_none raises
\* when more than one row matches
SaveSelect(k) ==
  /\ db.saver[k].pc = "select"
  /\ LET found == SelectPages(db.pages, SiteId, db.saver[k].data.url) IN
       db' = IF Cardinality(found) > 1
             THEN [db EXCEPT !.saver[k] = SaverIdle, !.raised = @ + 1]
             ELSE [db EXCEPT !.saver[k].pc = "write",
                             !.saver[k].existing =
                               IF found = {} THEN 0 ELSE db.pages[CHOOSE i \in found : TRUE].id]
  /\ UNCHANGED << coreVars, sessVars, pg, md, ck, extr >>

\* crawler.py:502-555  update the row found, or add a new row; write the
\* elements; commit
SaveWrite(k) ==
  /\ db.saver[k].pc = "write"
  /\ LET s == db.saver[k]
         id == IF s.existing # 0 THEN s.existing ELSE Len(db.pages) + 1
         rows == IF s.existing # 0 THEN db.pages
                 ELSE Append(db.pages, [ id |-> id, site_id |-> SiteId, url |-> s.data.url ])
     IN db' = [db EXCEPT
                 !.pages = rows,
                 !.saver[k] = IF s.data.content = "empty" THEN SaverIdle
                              ELSE [s EXCEPT !.pc = "embed", !.page_id = id]]
  /\ UNCHANGED << coreVars, sessVars, pg, md, ck, extr >>

\* crawler.py:555-599  generate the embeddings, "clear" the old ones, add
\* the new ones, commit
SaveEmbed(k) ==
  /\ db.saver[k].pc = "embed"
  /\ LET s == db.saver[k] IN
       db' = [db EXCEPT
                !.embeddings = AddEmbeddings(ClearEmbeddings(@, s.page_id), s.page_id,
                                             NewEmbeddings(s.data)),
                !.embedded = @ \cup {s.page_id},
                !.saver[k] = SaverIdle]
  /\ UNCHANGED << coreVars, sessVars, pg, md, ck, extr >>

DbNext ==
  \E k \in Savers :
    \/ SaveCall(k)
    \/ SaveSelect(k)
    \/ SaveWrite(k)
    \/ SaveEmbed(k)

SpecDb == DbInit /\ [][DbNext]_vars

(***************************************************************************)
(* WebCrawler._extract_page_data: the Open Graph / Twitter Card meta tags  *)
(* and the JSON-LD script blocks of one document.  A dict is a function    *)
(* on its keys.                                                            *)
(***************************************************************************)
MetaKeys == { "title", "image" }
MetaValues == { "X", "Y" }

\* <meta property="og:KEY" content=...>, <meta name="twitter:KEY" content=...>
\* and <script type="application/ld+json">: a body that parses, one that is
\* not JSON, and no body at all (script.string is None)
Elements ==
  [ tag : {"og", "twitter"}, key : MetaKeys, content : MetaValues ]
  \cup [ tag : {"ld+json"}, key : {""}, content : {"obj_a", "obj_b", "malformed", "empty"} ]

Pages == SeqsUpTo(Elements, MaxTags)

EmptyDict == << >>

\* d[k] = v
Put(d, k, v) == [ x \in (DOMAIN d) \cup {k} |-> IF x = k THEN v ELSE d[x] ]

\* crawler.py:362-365, 368-371  one dict entry per tag of the family, in
\* document order, a later tag overwriting an earlier one
RECURSIVE CollectMeta(_, _)
CollectMeta(doc, family) ==
  IF doc = << >> THEN EmptyDict
  ELSE LET n == Len(doc)
           d == CollectMeta(SubSeq(doc, 1, n - 1), family)
       IN IF doc[n].tag = family THEN Put(d, doc[n].key, doc[n].content) ELSE d

\* variant of MergeDicts: the entries of the first dict win
MergeDicts_FirstWins(a, b) ==
  [ k \in (DOMAIN a) \cup (DOMAIN b) |-> IF k \in DOMAIN a THEN a[k] ELSE b[k] ]

\* crawler.py:433  {**og_data, **twitter_data}
MergeDicts(a, b) ==
  [ k \in (DOMAIN a) \cup (DOMAIN b) |-> IF k \in DOMAIN b THEN b[k] ELSE a[k] ]

\* json.loads(script.string): JSONDecodeError for text that is not JSON,
\* TypeError for None
JsonLoads(body) ==
  CASE body = "malformed" -> [ raises |-> "JSONDecodeError", value |-> "" ]
    [] body = "empty"     -> [ raises |-> "TypeError", value |-> "" ]
    [] OTHER              -> [ raises |-> "", value |-> body ]

\* crawler.py:374-380  the loop over the script blocks: a JSONDecodeError is
\* skipped, any other exception leaves the loop and the function
RECURSIVE SchemaData(_)
SchemaData(doc) ==
  IF doc = << >> THEN [ raised |-> FALSE, list |-> << >> ]
  ELSE LET n == Len(doc)
           before == SchemaData(SubSeq(doc, 1, n - 1))
           parsed == JsonLoads(doc[n].content)
       IN IF before.raised \/ doc[n].tag # "ld+json" THEN before
          ELSE IF parsed.raises = "" THEN [before EXCEPT !.list = Append(@, parsed.value)]
          ELSE IF parsed.raises = "JSONDecodeError" THEN before
          ELSE [before EXCEPT !.raised = TRUE]

NoRecord == [ og_json |-> EmptyDict, schema_json |-> << >> ]

\* crawler.py:260  _crawl_page has loaded the page and calls _extract_page_data
ExtractInit ==
  /\ PipelineIdle
  /\ md = NoCall
  /\ ck = NoCall
  /\ db = NoCall
  /\ extr \in [ pc : {"meta"}, doc : Pages, og_data : {EmptyDict}, twitter_data : {EmptyDict},
                record : {NoRecord}, result : {"pending"} ]

\* crawler.py:336-371
ExtractMeta ==
  /\ extr.pc = "meta"
  /\ extr' = [extr EXCEPT !.og_data = CollectMeta(extr.doc, "og"),
                          !.twitter_data = CollectMeta(extr.doc, "twitter"),
                          !.pc = "schema"]
  /\ UNCHANGED << coreVars, sessVars, pg, md, ck, db >>

\* crawler.py:373-437, 260-263  the JSON-LD blocks, then the record is built
\* and returned to _crawl_page, which returns it
ExtractSchema ==
  /\ extr.pc = "schema"
  /\ ~ SchemaData(extr.doc).raised
  /\ extr' = [extr EXCEPT
                !.record = [ og_json |-> MergeDicts(extr.og_data, extr.twitter_data),
                             schema_json |-> SchemaData(extr.doc).list ],
                !.result = "page_data",
                !.pc = "returned"]
  /\ UNCHANGED << coreVars, sessVars, pg, md, ck, db >>

\* crawler.py:377, 265-267  an exception out of the loop leaves
\* _extract_page_data and is caught by _crawl_page, which returns None
ExtractRaises ==
  /\ extr.pc = "schema"
  /\ SchemaData(extr.doc).raised
  /\ extr' = [extr EXCEPT !.result = "None", !.pc = "returned"]
  /\ UNCHANGED << coreVars, sessVars, pg, md, ck, db >>

ExtractNext ==
  \/ ExtractMeta
  \/ ExtractSchema
  \/ ExtractRaises

SpecExtract == ExtractInit /\ [][ExtractNext]_vars

(***************************************************************************)
(* The anchors of one fetched page: _extract_page_data builds the link     *)
(* list, _crawl_full_site asks _extract_internal_links what to enqueue.    *)
(***************************************************************************)
\* hrefs besides those of Hrefs: //other/y, //site/p1 and mailto:me
Anchors ==
  Hrefs \cup
  { [kind |-> "protorel", host |-> "other", name |-> "y",  ext |-> ""],
    [kind |-> "protorel", host |-> Domain,  name |-> "p1", ext |-> ""],
    [kind |-> "mailto",   host |-> "",      name |-> "me", ext |-> ""] }

\* urlparse(url).netloc
HostOf(u) == u.host

\* crawler.py:261  _extract_page_data(page, url) is called on a page of the site
LinksInit ==
  /\ PipelineIdle
  /\ md = NoCall
  /\ ck = NoCall
  /\ db = NoCall
  /\ extr \in [ pc : {"anchors"}, url : { StartUrl(Domain), PageUrl("p1") },
                doc : SeqsUpTo(Anchors, MaxLinks), links : { << >> }, enqueue : { << >> } ]

\* crawler.py:393-412
ExtractAnchors ==
  /\ extr.pc = "anchors"
  /\ extr' = [extr EXCEPT !.links = ExtractLinks(extr.url, extr.doc), !.pc = "filter"]
  /\ UNCHANGED << coreVars, sessVars, pg, md, ck, db >>

\* crawler.py:213-219, 468-479  the URLs _crawl_full_site appends to the frontier
FilterInternal ==
  /\ extr.pc = "filter"
  /\ \E order \in ExtractInternalLinks(extr.links, HostOf(extr.url)) :
       extr' = [extr EXCEPT !.enqueue = order, !.pc = "done"]
  /\ UNCHANGED << coreVars, sessVars, pg, md, ck, db >>

LinksNext ==
  \/ ExtractAnchors
  \/ FilterInternal

SpecLinks == LinksInit /\ [][LinksNext]_vars

(***************************************************************************)
(* WebCrawler._wait_for_stable_page, the step of _crawl_page between the   *)
(* status check and the extraction, followed poll by poll.                 *)
(***************************************************************************)
\* crawler.py:318  for _ in range(10)
MaxPolls == 10

\* crawler.py:325  if stable_count >= 3
StableChecks == 3

\* values of document.body.innerHTML.length (0: an empty body)
Sizes == { 0, 1, 2 }

\* crawler.py:323-328  stable_count after a reading
StableCount(count, last_size, current_size) ==
  IF current_size = last_size THEN count + 1 ELSE 0

\* crawler.py:258, 315-316  _wait_for_stable_page(page) is called
StableInit ==
  /\ CrawlIdle
  /\ session = [ browser |-> "open", context |-> "open" ]
  /\ sessionLog = << "start", "launch", "new_context", "add_init_script" >>
  /\ md = NoCall
  /\ ck = NoCall
  /\ db = NoCall
  /\ extr = NoCall
  /\ pg = [ pc |-> "poll", stable_count |-> 0, last_size |-> 0, readings |-> << >>,
            broke |-> FALSE ]

\* crawler.py:318-330  one turn of the loop: sleep, read the size, compare;
\* page.evaluate may raise
StablePoll ==
  /\ pg.pc = "poll"
  /\ Len(pg.readings) < MaxPolls
  /\ \/ \E current_size \in Sizes :
          LET count == StableCount(pg.stable_count, pg.last_size, current_size) IN
            pg' = IF current_size = pg.last_size /\ count >= StableChecks
                  THEN [pg EXCEPT !.readings = Append(@, current_size),
                                  !.stable_count = count,
                                  !.broke = TRUE, !.pc = "returned"]
                  ELSE [pg EXCEPT !.readings = Append(@, current_size),
                                  !.stable_count = count,
                                  !.last_size = current_size]
     \/ pg' = [pg EXCEPT !.pc = "raised"]
  /\ UNCHANGED << crawlVars, sessVars >>

\* crawler.py:318, 330  the ten turns are used up: the function returns
StableGiveUp ==
  /\ pg.pc = "poll"
  /\ Len(pg.readings) >= MaxPolls
  /\ pg' = [pg EXCEPT !.pc = "returned"]
  /\ UNCHANGED << crawlVars, sessVars >>

StableNext ==
  \/ StablePoll
  \/ StableGiveUp

SpecStable == StableInit /\ [][StableNext]_vars

(***************************************************************************)
(* The task of a crawl created with an explicit URL list that is empty     *)
(* (crawl_data.urls = []).                                                 *)
(***************************************************************************)
\* crawls.py:17-21, 84-96  create_crawl with urls = []
EmptyListInit ==
  /\ crawl = [ status |-> PENDING, total_pages |-> 0, pages_crawled |-> 0,
               pages_failed |-> 0, completed_at |-> FALSE, error_message |-> NoMessage ]
  /\ urls = << >>
  /\ explicit = TRUE
  /\ config \in [ max_pages : 0..MaxPages, max_depth : 0..MaxDepth,
                   delay_min : {DelayMin}, delay_max : {DelayMax} ]
  /\ pc = "queued"
  /\ results = NewResults
  /\ visited = {}
  /\ to_visit = << >>
  /\ idx = 0
  /\ cur = NoCur
  /\ fetched = << >>
  /\ outcome = "none"
  /\ skipped = {}
  /\ saved = << >>
  /\ exc = "none"
  /\ cancelPc = "idle"
  /\ replies = << >>
  /\ site = AnySite
  /\ pause = 0
  /\ session = NewSession
  /\ sessionLog = << >>
  /\ pg = NoPage
  /\ md = NoCall
  /\ ck = NoCall
  /\ db = NoCall
  /\ extr = NoCall

SpecEmptyList == EmptyListInit /\ [][FullTaskNext]_vars

(***************************************************************************)
(* The background task of any crawl, directed or full-site, run to its     *)
(* end by the event loop while cancel requests arrive.  Every await of the *)
(* task returns, so a step of the task that can be taken is taken; a       *)
(* cancel request may or may not come.                                     *)
(***************************************************************************)
LivePages == 2
LiveUrls == 1

\* crawls.py:84-96  any crawl of the bounded configurations
LiveInit ==
  /\ crawl = [ status |-> PENDING, total_pages |-> 0, pages_crawled |-> 0,
               pages_failed |-> 0, completed_at |-> FALSE, error_message |-> NoMessage ]
  /\ urls \in SeqsUpTo(ListUrls, LiveUrls)
  /\ explicit = (urls # << >>)
  /\ config \in [ max_pages : 0..LivePages, max_depth : 0..1,
                   delay_min : {DelayMin}, delay_max : {DelayMax} ]
  /\ pc = "queued"
  /\ results = NewResults
  /\ visited = {}
  /\ to_visit = << >>
  /\ idx = 0
  /\ cur = NoCur
  /\ fetched = << >>
  /\ outcome = "none"
  /\ skipped = {}
  /\ saved = << >>
  /\ exc = "none"
  /\ cancelPc = "idle"
  /\ replies = << >>
  /\ site = AnySite
  /\ pause = 0
  /\ session = NewSession
  /\ sessionLog = << >>
  /\ pg = NoPage
  /\ md = NoCall
  /\ ck = NoCall
  /\ db = NoCall
  /\ extr = NoCall

\* crawls.py:163-233  the steps of start_crawl_task
LiveTaskNext ==
  \/ FullTaskNext
  \/ DirectedNext
  \/ DirectedPage
  \/ DirectedExit

\* crawls.py:134-161  the steps of cancel_crawl
LiveCancelNext ==
  \/ CancelRead
  \/ CancelCommit

LiveNext ==
  \/ LiveTaskNext
  \/ LiveCancelNext

SpecLive == LiveInit /\ [][LiveNext]_vars /\ WF_vars(LiveTaskNext)

TypeOK ==
  /\ crawl.status \in CrawlStatus
  /\ results.pages_crawled \in Nat
  /\ results.pages_failed \in Nat
  /\ pc \in { "queued", "starting", "dispatch", "full", "full_page", "directed",
              "directed_page", "returned", "stopping", "handler", "done" }


(***************************************************************************)
(* Properties                                                              *)
(***************************************************************************)
FullSite == urls = << >>
Directed == urls # << >>
ListedUrls == { urls[i] : i \in 1..Len(urls) }
FetchedUrls == { fetched[i].url : i \in 1..Len(fetched) }
EverCancelled == \E i \in 1..Len(replies) : replies[i] = "cancelled"

\* C1: in a full-site crawl no URL is passed to _crawl_page twice, and a
\* frontier entry is discarded only because its URL was already visited or
\* its depth exceeds max_depth, so a discarded entry adds no fetch.
C1_NoUrlFetchedTwice ==
  FullSite =>
    /\ \A i, j \in 1..Len(fetched) : i # j => fetched[i].url # fetched[j].url
    /\ Cardinality(visited) = Len(fetched)
    /\ \A e \in skipped : e.url \in visited \/ e.depth > config.max_depth

\* a frontier entry for an already fetched URL was popped and discarded
C1_Witness ==
  /\ FullSite
  /\ Len(fetched) = 3
  /\ \E e \in skipped : e.url \in FetchedUrls /\ e.depth <= config.max_depth

\* C2: in a full-site crawl every fetched URL was dequeued at a depth in
\* 0..max_depth, no frontier entry is deeper than max_depth (a page fetched at
\* max_depth is not expanded), and with max_depth = 0 only the root is fetched.
C2_DepthBounded ==
  FullSite =>
    /\ \A i \in 1..Len(fetched) : fetched[i].depth >= 0 /\ fetched[i].depth <= config.max_depth
    /\ \A i \in 1..Len(to_visit) : to_visit[i].depth <= config.max_depth
    /\ \A e \in skipped : e.depth <= config.max_depth
    /\ config.max_depth = 0 => FetchedUrls \subseteq {StartUrl(Domain)}

\* a page at depth max_depth >= 1 was fetched successfully and the loop went on
C2_Witness ==
  /\ FullSite
  /\ pc = "full"
  /\ config.max_depth >= 1
  /\ Len(fetched) >= 2
  /\ fetched[Len(fetched)].depth = config.max_depth
  /\ outcome = "ok"

\* C3: in a full-site crawl |visited| <= max_pages in every state, failed
\* fetches included, and the reported total_pages is at most max_pages.
C3_VisitedBounded ==
  FullSite =>
    /\ Cardinality(visited) <= config.max_pages
    /\ results.total_pages <= config.max_pages

\* the bound is reached with a failed fetch counted and the frontier not empty
C3_Witness ==
  /\ FullSite
  /\ pc = "returned"
  /\ config.max_pages = 2
  /\ results.total_pages = 2
  /\ results.pages_failed = 1
  /\ to_visit # << >>

\* C4: in a directed crawl (non-empty explicit list) every URL passed to
\* _crawl_page is an element of the list, and nothing enters a frontier.
C4_DirectedStaysInList ==
  Directed =>
    /\ FetchedUrls \subseteq ListedUrls
    /\ to_visit = << >>
    /\ Len(fetched) <= Len(urls)

\* a directed crawl fetched all its URLs, at least one of them successfully
C4_Witness ==
  /\ Directed
  /\ pc = "returned"
  /\ Len(fetched) = 2
  /\ results.pages_crawled >= 1

\* C5: once cancel_crawl has marked the running crawl CANCELLED, the crawl
\* loop starts no further page fetch (the fetch in flight may complete).
C5_NoFetchAfterCancel ==
  [][crawl.status = CANCELLED => fetched' = fetched]_vars

\* C6: the stored status only moves PENDING -> RUNNING -> terminal (a pending
\* crawl may also be cancelled directly); a terminal status never changes.
C6_TerminalAbsorbing ==
  [][ \/ crawl'.status = crawl.status
      \/ crawl.status = PENDING /\ crawl'.status \in {RUNNING, CANCELLED}
      \/ crawl.status = RUNNING /\ crawl'.status \in Terminal ]_vars

\* C7 as stated: when the task has finished and no cancel was accepted, the
\* status is FAILED exactly if pages_crawled = 0 and pages_failed > 0.
C7_FailedIffOnlyFailures ==
  (pc = "done" /\ ~ EverCancelled) =>
    (crawl.status = FAILED <=> (crawl.pages_crawled = 0 /\ crawl.pages_failed > 0))

\* C7 amended: when the task has finished and no cancel was accepted, then if
\* session start and stop raised nothing the status is FAILED exactly if
\* pages_crawled = 0 and pages_failed > 0 and COMPLETED otherwise; if start()
\* or stop() raised, the handler has set FAILED whatever the counters are.
C7_FinalStatusDerived ==
  (pc = "done" /\ ~ EverCancelled) =>
    IF exc = "none"
    THEN crawl.status =
           IF crawl.pages_crawled = 0 /\ crawl.pages_failed > 0 THEN FAILED ELSE COMPLETED
    ELSE crawl.status = FAILED

\* a crawl with one page crawled and one page failed finished as COMPLETED
C7_Witness ==
  /\ pc = "done"
  /\ ~ EverCancelled
  /\ exc = "none"
  /\ crawl.pages_crawled >= 1
  /\ crawl.pages_failed >= 1
  /\ crawl.status = COMPLETED

\* C8: when crawl_site returns, the number of page records written by the
\* run equals pages_crawled.
C8_SavedEqualsCrawled ==
  pc = "returned" => Len(saved) = results.pages_crawled

\* C9: a _crawl_page call that fails in any way (None returned or exception
\* raised) increments pages_failed by exactly one, leaves pages_crawled
\* alone, raises nothing out of crawl_site and returns to the head of the loop.
C9_PageFailureCountedOnce ==
  [][ (pc \in {"full_page", "directed_page"} /\ pc' # pc /\ outcome' # "ok") =>
        /\ results'.pages_failed = results.pages_failed + 1
        /\ results'.pages_crawled = results.pages_crawled
        /\ pc' \in {"full", "directed"}
        /\ exc' = "none" ]_vars

\* the first URL of a list raised, was counted once, and the second URL is
\* now being fetched
C9_Witness ==
  /\ pc = "directed_page"
  /\ idx = 2
  /\ outcome \in {"new_page_exception", "close_exception"}
  /\ results.pages_failed = 1
  /\ results.pages_crawled = 0

\* C10: when crawl_site returns, the error list holds one entry per failed
\* URL: as many entries as pages_failed.
C10_ErrorPerFailedUrl ==
  pc = "returned" => Len(results.errors) = results.pages_failed

\* C14: between two fetches of one crawl run the politeness pause of
\* delay_min + (delay_max - delay_min)/2 has been slept, whatever the outcome
\* of the earlier fetch was.
C14_PauseBetweenFetches ==
  (pc \in {"full_page", "directed_page"} /\ Len(fetched) >= 2) =>
    pause = PolitenessDelay(config.delay_min, config.delay_max)

\* C15: when start_crawl_task has returned, no browser and no browsing
\* context that was launched is still open.
C15_SessionReleased ==
  pc = "done" => (session.browser # "open" /\ session.context # "open")

\* C17: after a start() that raised no URL is ever fetched and all counters
\* stay 0, and the handler of the task ends the crawl as FAILED with the
\* launch error as error_message.
C17_LaunchFailureAborts ==
  /\ [](exc = "start" =>
          /\ fetched = << >>
          /\ results = NewResults
          /\ crawl.pages_crawled = 0 /\ crawl.pages_failed = 0 /\ crawl.total_pages = 0
          /\ pc \in {"handler", "done"})
  /\ [][(exc = "start" /\ pc = "handler" /\ pc' = "done") =>
          /\ crawl'.status = FAILED
          /\ crawl'.error_message =
               [set |-> TRUE, parts |-> << [url |-> NoUrl, error |-> "start"] >>]]_vars

\* the context could not be created after the browser was launched and the
\* task has ended the crawl as FAILED
C17_Witness ==
  /\ pc = "done"
  /\ exc = "start"
  /\ sessionLog = << "start", "launch", "new_context" >>
  /\ crawl.status = FAILED

\* C18: in a full-site crawl the depths of the fetched URLs, in fetch order,
\* never decrease; the frontier is ordered by depth and no URL waiting in it
\* unvisited is shallower than a URL already fetched.
C18_ShallowFirst ==
  FullSite =>
    /\ \A i, j \in 1..Len(fetched) : i < j => fetched[i].depth <= fetched[j].depth
    /\ \A i, j \in 1..Len(to_visit) : i < j => to_visit[i].depth <= to_visit[j].depth
    /\ \A i \in 1..Len(fetched), k \in 1..Len(to_visit) :
         fetched[i].depth <= to_visit[k].depth

\* a depth-1 entry was fetched while a depth-2 entry waited behind another
\* depth-1 entry in the frontier
C18_Witness ==
  /\ FullSite
  /\ pc = "full"
  /\ Len(fetched) = 2
  /\ fetched[2].depth = 1
  /\ Len(to_visit) = 2
  /\ to_visit[1].depth = 1
  /\ to_visit[2].depth = 2

\* the internal page links of a page in the order in which they occur in
\* its link list, each kept at its first occurrence
DiscoveryOrder(links) ==
  LET kept == SelectSeq(links, IsPageLink)
      first == { i \in 1..Len(kept) : \A j \in 1..(i - 1) : kept[j].url # kept[i].url }
      pos(k) == CHOOSE i \in first : Cardinality({ j \in first : j <= i }) = k
  IN [ k \in 1..Cardinality(first) |-> kept[pos(k)].url ]

\* C19: the internal links found on a page are enqueued in their discovery
\* order, the order of the page's link list.
C19_DiscoveryOrder ==
  [][ (pc = "full_page" /\ pc' = "full" /\ outcome' = "ok"
         /\ cur.depth < config.max_depth) =>
        to_visit' = Enqueue(to_visit,
                            DiscoveryOrder(ExtractLinks(cur.url, site.doc[cur.url])),
                            visited, cur.depth) ]_vars

ScenarioA ==
  /\ site.fixed
  /\ site.outcomes = {"ok"}
  /\ config.max_depth = 1
  /\ config.max_pages = 10
  /\ pc = "returned"

\* C20 as stated: scenario A returns total_pages = 3, pages_crawled = 3 and
\* pages_failed = 0.
C20_ScenarioA_Three ==
  ScenarioA =>
    /\ results.total_pages = 3
    /\ results.pages_crawled = 3
    /\ results.pages_failed = 0

\* C20 amended: scenario A returns total_pages = 4, pages_crawled = 4 and
\* pages_failed = 0: the root is visited and crawled as well as p1, p2, p3.
C20_ScenarioA_Four ==
  ScenarioA =>
    /\ results.total_pages = 4
    /\ results.pages_crawled = 4
    /\ results.pages_failed = 0
    /\ visited = ScenarioPages

\* scenario A has run to the return of crawl_site
C20_Witness ==
  /\ ScenarioA
  /\ Len(fetched) = 4
  /\ to_visit = << >>

Gotos == SelectSeq(pg.log, LAMBDA e : e.op = "goto")
Sleeps == SelectSeq(pg.log, LAMBDA e : e.op = "sleep")

\* C11: one _navigate_with_retries call issues at most 3 page.goto calls,
\* the load-event fallback counted.
C11_AtMostThreeGotos ==
  Len(Gotos) <= 3

\* C12: every page.goto after the first of a call is directly preceded by a
\* backoff sleep.
C12_SleepBeforeEveryRetry ==
  \A i \in 2..Len(pg.log) :
    pg.log[i].op = "goto" => pg.log[i - 1].op = "sleep"

\* C13: the backoff sleeps of one call are 1 s then 2 s, never decreasing,
\* and when the final attempt has failed and its exception is raised the last
\* thing done was that page.goto, not a sleep.
C13_BackoffNonDecreasing ==
  /\ \A i, j \in 1..Len(Sleeps) : i < j => Sleeps[i].secs <= Sleeps[j].secs
  /\ Len(Sleeps) <= 2
  /\ Len(Sleeps) >= 1 => Sleeps[1].secs = 1
  /\ Len(Sleeps) >= 2 => Sleeps[2].secs = 2
  /\ pg.nav = "raised" =>
       /\ pg.log[Len(pg.log)].op = "goto"
       /\ pg.attempt = pg.max_retries - 1

\* every attempt failed: two sleeps were done and the exception was raised
C13_Witness ==
  /\ pg.nav = "raised"
  /\ pg.pc = "returned"
  /\ Len(Sleeps) = 2
  /\ pg.result = "None"

\* C16: a stop() called on a session that was never started, or whose
\* browser and context were already closed by an earlier stop(), issues no
\* close operation and leaves the session as it is.
C16_StopIdempotent ==
  [][ ( /\ Len(sessionLog') > Len(sessionLog)
        /\ sessionLog'[Len(sessionLog) + 1] = "stop"
        /\ session.browser # "open"
        /\ session.context # "open" ) =>
      ( /\ sessionLog' = Append(sessionLog, "stop")
        /\ session' = session ) ]_vars

ScenarioB ==
  /\ site.fixed
  /\ site.outcomes = {"ok"}
  /\ config.max_depth = 1
  /\ config.max_pages = 1
  /\ pc = "returned"

\* C21: a full-site crawl that has entered its loop leaves it; when the loop
\* has exited the frontier is empty or |visited| = max_pages, and a frontier
\* left non-empty means exactly max_pages URLs were visited; scenario B
\* (max_pages = 1) ends with one page visited and crawled and the links of
\* the root still in the frontier.
C21_HaltsAtBound ==
  /\ (pc = "full") ~> (pc = "returned")
  /\ [](pc = "returned" =>
          /\ to_visit = << >> \/ Cardinality(visited) = config.max_pages
          /\ results.total_pages = Cardinality(visited)
          /\ Len(fetched) = Cardinality(visited))
  /\ [](ScenarioB =>
          /\ visited = {StartUrl(Domain)}
          /\ results.total_pages = 1
          /\ results.pages_crawled = 1
          /\ Len(to_visit) = 3)

\* the page bound stopped a crawl of a site that had more to visit
C21_Witness ==
  /\ pc = "returned"
  /\ ~ site.fixed
  /\ config.max_pages = 2
  /\ Cardinality(visited) = 2
  /\ to_visit # << >>
  /\ \E i \in 1..Len(to_visit) : to_visit[i].url \notin visited


\* C22: in a directed crawl no URL is passed to _crawl_page more than once,
\* however often it occurs in the explicit list.
C22_DirectedFetchedOnce ==
  Directed =>
    \A i, j \in 1..Len(fetched) : i # j => fetched[i].url # fetched[j].url

\* C23: the string returned by html_to_markdown has at most 50000
\* characters, the ellipsis of a truncated result included.
C23_MarkdownBounded ==
  md.pc = "returned" => md.out <= MaxChars

ChunkTextReturned == ck.pc \in {"chunks_returned", "chunked", "returned"}

\* C24: no chunk returned by _chunk_text is empty or whitespace-only; no
\* 'chunk' embedding emitted by generate_embeddings has an empty or
\* whitespace-only content_text, and the chunk_index values emitted are
\* 0..n-1 in increasing order.
C24_NoBlankChunk ==
  /\ ChunkTextReturned =>
       \A i \in 1..Len(ck.chunks) : Strip(ck.chunks[i]) # << >>
  /\ ck.pc = "returned" =>
       \A i \in 1..Len(ck.embeddings) :
         ck.embeddings[i].kind = "chunk" =>
           /\ Strip(ck.embeddings[i].content_text) # << >>
           /\ ck.embeddings[i].chunk_index = i - 2

InWindow(p, w) == w.start <= p /\ p < w.end

C26_CursorAdvances ==
  [][ (ck.pc \in {"loop", "loop_call"} /\ Len(ck'.windows) > Len(ck.windows)) =>
        ck'.start > ck.start ]_vars

EmbeddingsOf(page_id, kind) ==
  Len(SelectSeq(db.embeddings, LAMBDA e : e.page_id = page_id /\ e.kind = kind))

\* C27: whenever no save is in progress, a page saved with non-empty content
\* holds exactly one 'page' embedding and at most one embedding of each
\* element kind, however often it was saved.
C27_EmbeddingsReplaced ==
  (\A k \in Savers : db.saver[k].pc = "idle") =>
    \A p \in db.embedded :
      /\ EmbeddingsOf(p, "page") = 1
      /\ \A kind \in ElementKinds : EmbeddingsOf(p, kind) <= 1

\* C28: the pages table never holds two rows with the same (site_id, url).
C28_OnePagePerUrl ==
  \A i, j \in 1..Len(db.pages) :
    (db.pages[i].site_id = db.pages[j].site_id /\ db.pages[i].url = db.pages[j].url) => i = j

\* positions of the tags of the document that define key k
TagsOf(k, families) ==
  { i \in 1..Len(extr.doc) : extr.doc[i].tag \in families /\ extr.doc[i].key = k }

BothDefine(k) == TagsOf(k, {"og"}) # {} /\ TagsOf(k, {"twitter"}) # {}

\* C29 as stated: for a key defined by an og:* tag and by a twitter:* tag, the
\* merged og_json holds the value of the tag that comes last in the document.
C29_LastTagWins ==
  extr.result = "page_data" =>
    \A k \in MetaKeys :
      BothDefine(k) =>
        extr.record.og_json[k] = extr.doc[SetMax(TagsOf(k, {"og", "twitter"}))].content

\* C29 amended: for a key defined by an og:* tag and by a twitter:* tag, the
\* merged og_json holds the value of the last twitter:* tag of that key,
\* wherever the og:* tags stand in the document.
C29_TwitterWins ==
  extr.result = "page_data" =>
    \A k \in MetaKeys :
      BothDefine(k) =>
        extr.record.og_json[k] = extr.doc[SetMax(TagsOf(k, {"twitter"}))].content

\* twitter:title = Y stands before og:title = X and the merged title is Y
C29_Witness ==
  /\ extr.result = "page_data"
  /\ Len(extr.doc) = 2
  /\ extr.doc[1] = [ tag |-> "twitter", key |-> "title", content |-> "Y" ]
  /\ extr.doc[2] = [ tag |-> "og", key |-> "title", content |-> "X" ]
  /\ extr.record.og_json["title"] = "Y"

\* the JSON-LD blocks of the document that parse, in document order
ParsedBlocks(doc) ==
  LET blocks == SelectSeq(doc, LAMBDA e : e.tag = "ld+json" /\ e.content \in {"obj_a", "obj_b"})
  IN [ i \in 1..Len(blocks) |-> blocks[i].content ]

\* C30: whatever JSON-LD blocks the document holds, _extract_page_data returns
\* a record (the page counts as crawled) whose schema list is the blocks that
\* parse, in document order.
C30_BadBlockSkipped ==
  extr.pc = "returned" =>
    /\ extr.result = "page_data"
    /\ extr.record.schema_json = ParsedBlocks(extr.doc)

\* C31: a page is given up because of a response with status >= 400 only
\* when the last of the 3 navigation attempts returned that response.
C31_ErrorStatusRetried ==
  ( /\ pg.pc \in {"close", "returned", "raised"}
    /\ pg.nav = "returned"
    /\ ~ pg.response.none
    /\ pg.response.status >= 400 ) =>
    pg.attempt = pg.max_retries - 1

\* C32: a link is marked internal exactly if the host of its resolved URL is
\* the host of the page, and every URL handed to the frontier is on the host
\* of the page it was found on.
C32_InternalIffSameHost ==
  /\ extr.pc \in {"filter", "done"} =>
       \A i \in 1..Len(extr.links) :
         extr.links[i].is_internal <=> (HostOf(extr.links[i].url) = HostOf(extr.url))
  /\ extr.pc = "done" =>
       \A i \in 1..Len(extr.enqueue) : HostOf(extr.enqueue[i]) = HostOf(extr.url)

\* the readings n-3 .. n are equal: reading n completes 3 consecutive
\* readings each equal to the reading before it
Settled(n) ==
  /\ n >= StableChecks + 1
  /\ \A i \in (n - StableChecks + 1)..n : pg.readings[i] = pg.readings[i - 1]

\* C33: at most 10 polls are made; the function returns early exactly at the
\* first poll that completes 3 consecutive unchanged readings; when the size
\* never settles it returns after the 10th poll without raising.
C33_StableAfterThree ==
  /\ Len(pg.readings) <= MaxPolls
  /\ pg.broke => Settled(Len(pg.readings))
  /\ \A n \in 1..(Len(pg.readings) - 1) : ~ Settled(n)
  /\ (pg.pc = "returned" /\ ~ pg.broke) => Len(pg.readings) = MaxPolls

\* C34: when _crawl_page returns, with page data or with None, the page handle
\* it opened is closed; a handle is open only while the call is in progress.
C34_PageHandleClosed ==
  /\ pg.pc = "returned" => (~ pg.open /\ pg.result \in {"page_data", "None"})
  /\ pg.open => pg.pc \in {"goto", "fallback", "sleep", "check", "extract", "close", "raised"}
  /\ (pg.pc = "raised" /\ ~ pg.open) => pg.log = << >>

\* the call returned None after every navigation attempt raised, handle closed
C34_Witness ==
  /\ pg.pc = "returned"
  /\ pg.nav = "raised"
  /\ pg.result = "None"
  /\ ~ pg.open
  /\ Len(Gotos) >= 3

C36_CountsAddUp ==
  /\ [](pc = "returned" =>
          /\ results.pages_crawled + results.pages_failed = results.total_pages
          /\ results.pages_crawled + results.pages_failed = Len(fetched))
  /\ [][ (pc \in {"full_page", "directed_page"} /\ pc' # pc) =>
           \/ /\ results'.pages_crawled = results.pages_crawled + 1
              /\ results'.pages_failed = results.pages_failed
           \/ /\ results'.pages_crawled = results.pages_crawled
              /\ results'.pages_failed = results.pages_failed + 1 ]_vars

\* a crawl returned with one page crawled, one failed by returning None and
\* one failed by an exception
C36_Witness ==
  /\ pc = "returned"
  /\ FullSite
  /\ results.total_pages = 3
  /\ results.pages_crawled = 1
  /\ results.pages_failed = 2
  /\ Len(results.errors) = 1

\* C37: a crawl given an explicit URL list that is empty fetches no page and
\* puts nothing in a frontier.
C37_EmptyListFetchesNothing ==
  (explicit /\ urls = << >>) =>
    /\ fetched = << >>
    /\ to_visit = << >>
    /\ visited = {}

\* C38: a crawl whose status is FAILED has a non-empty error_message.
C38_FailedHasMessage ==
  crawl.status = FAILED =>
    /\ crawl.error_message.set
    /\ crawl.error_message.parts # << >>

\* C39: once the background task of a crawl has started, the task comes to
\* its end with the crawl in a terminal status and completed_at set, also
\* when the session start or stop raised; the crawl then stays terminal.
C39_ReachesTerminal ==
  /\ (pc # "queued") ~> (pc = "done" /\ crawl.status \in Terminal /\ crawl.completed_at)
  /\ [](pc = "done" => crawl.status \in Terminal /\ crawl.completed_at)

\* the session start raised and the handler of the task marked the crawl
C39_Witness ==
  /\ pc = "done"
  /\ exc = "start"
  /\ crawl.status = FAILED
  /\ crawl.completed_at

=============================================================================
